---- MODULE Spec2Model ----
(***************************************************************************)
(* Student progress tracker (src/main.py): a Streamlit script over a       *)
(* path-addressed mock store (MOCK_DB), two TTL-memoized normalizers       *)
(* (get_daily_logs, get_habit_logs), the page functions and the router.    *)
(*                                                                         *)
(* Representation.                                                         *)
(*  - A Python dict that is iterated (a collection, key -> entry) is a     *)
(*    sequence of <<key, value>> pairs in insertion order.                 *)
(*  - An entry (field name -> value) is a function whose DOMAIN is the set *)
(*    of fields present; a missing field is a field not in the DOMAIN.     *)
(*  - Stored scalars are tagged: <<"num", n>> a number, <<"str", s>> a     *)
(*    text that is no number, <<"ymd", d>> the text strftime('%Y-%m-%d')   *)
(*    prints for calendar day d.  Hours are counted in tenths of an hour.  *)
(*  - DataFrame cells are tagged too: <<"num", n>>, <<"nan">>, <<"ts", t>> *)
(*    (a timestamp, seconds), <<"nat">> (not-a-time), <<"obj", v>>.        *)
(*  - A store path "coll/user" is <<coll, user>>, "coll/user/key" is       *)
(*    <<coll, user, key>>.                                                 *)
(*  - One action is one script run triggered by one click, together with   *)
(*    the rerun that st.rerun()/st.experimental_rerun() starts.            *)
(*  - MOCK_DB stands for the document store behind read/write/update/     *)
(*    push: it is seeded once (Init) and keeps its contents for the whole  *)
(*    behaviour, as the store does across script runs.                     *)
(***************************************************************************)
EXTENDS Integers, Sequences, FiniteSets, TLC

VARIABLES
    db,        \* MOCK_DB: path -> value
    cache,     \* st.cache_data entries of get_daily_logs / get_habit_logs
    session,   \* st.session_state: a function over a subset of {"user","page"}
    clock,     \* datetime.now(): [day, sec]
    keys,      \* number of keys uuid4 has generated
    clicks,    \* number of script runs the user has started
    view       \* what the last script run displayed

vars == <<db, cache, session, clock, keys, clicks, view>>

-----------------------------------------------------------------------------
(* Bounds *)

\* seeded days per user (range(14) in generate_user_data, shortened)
SeedDays == 1
\* fresh keys push may generate in one behaviour
MaxKeys == 2
\* the clock advances in steps of TickSecs seconds, up to MaxSec within a day
TickSecs == 600
MaxSec == 600
\* days the clock may advance past the start day
MaxDays == 1
\* script runs the user may start in one behaviour
MaxClicks == 4
\* entries per raw collection in the store-content specification
MaxLen == 2
\* script runs of a behaviour of the store-content specification
CoreClicks == 2

(* Program constants *)

\* @st.cache_data(ttl=600)
TTL == 600
\* timedelta(days=7) of the dashboard's recent summary
WindowDays == 7
\* df_habits.head(7) of the suggestions tab
HeadHabits == 7
\* df.head(10) of the work-log history
HeadHistory == 10

SecondsPerDay == 24 * 60 * 60

\* the day the script is first run on
StartDay == 20

HABITS == <<"1 LeetCode/DSA Problem", "Review AI/ML Notes",
            "Dedicated Project Coding Session", "Notes/Revision (Non-coding)",
            "Learning Videos/Tutorials", "Health Habit (Exercise/Walk)",
            "No Phone 1 Hour Study", "Wake Up on Time">>

\* USERS.keys() in insertion order, and the credentials
USERS == <<"manav", "kaaysha", "pranav">>

Password(u) == "1234"

Roster == {USERS[i] : i \in 1..Len(USERS)}

PAGES == <<"Dashboard", "Daily Planner", "Daily Log", "Projects", "Learning",
           "Weekly Goals", "Habits", "Graphs & Insights">>

-----------------------------------------------------------------------------
(* Generic helpers *)

Range(s) == {s[i] : i \in 1..Len(s)}

RECURSIVE SumSeq(_)
SumSeq(s) == IF Len(s) = 0 THEN 0 ELSE s[1] + SumSeq(Tail(s))

Num(n) == <<"num", n>>
Ymd(d) == <<"ymd", d>>
NaN == <<"nan">>
NaT == <<"nat">>
IsNum(c) == c[1] = "num"

\* SelectSeq with the index order kept (boolean-mask row selection)
Filter(s, Test(_)) == SelectSeq(s, Test)

\* s.head(n)
Head_n(s, n) == IF Len(s) <= n THEN s ELSE SubSeq(s, 1, n)

\* dict.update(b): the keys of b replace or extend those of a
DictUpdate(a, b) ==
    [k \in DOMAIN a \cup DOMAIN b |-> IF k \in DOMAIN b THEN b[k] ELSE a[k]]

\* d.get(k, default) on an entry
GetOr(d, k, default) == IF k \in DOMAIN d THEN d[k] ELSE default

-----------------------------------------------------------------------------
(* Time *)

\* datetime.now().strftime("%Y-%m-%d")
Today(clk) == Ymd(clk.day)

\* datetime.now() as a timestamp in seconds
NowTs(clk) == clk.day * SecondsPerDay + clk.sec

\* strftime('%Y-%m-%d') of a timestamp: the time of day is dropped
Strftime(ts) == Ymd(ts \div SecondsPerDay)

\* pd.to_datetime of one date text (midnight of that day)
ParseDate(s) == s[2] * SecondsPerDay

Parseable(s) == s[1] = "ymd"

-----------------------------------------------------------------------------
(* The mock store: read / write / update / push *)

\* read(path): MOCK_DB.get(path); None is modelled as <<"None">>
None == <<"None">>

read(store, path) == IF path \in DOMAIN store THEN store[path] ELSE None

\* read(path) or {}  (None and the empty dict are both falsy)
ReadOrEmpty(store, path) ==
    IF path \in DOMAIN store /\ DOMAIN store[path] # {} THEN store[path] ELSE <<>>

\* MOCK_DB.setdefault(path, data): the first value written to a path stays
WriteIfAbsent(store, path, data) ==
    [p \in DOMAIN store \cup {path} |-> IF p \in DOMAIN store THEN store[p] ELSE data]

\* write(path, data): MOCK_DB[path] = data
write(store, path, data) ==
    [p \in DOMAIN store \cup {path} |-> IF p = path THEN data ELSE store[p]]

\* update(path, data): merge into the dict stored AT path, else store data at path
update(store, path, data) ==
    IF path \in DOMAIN store
    THEN [store EXCEPT ![path] = DictUpdate(store[path], data)]
    ELSE write(store, path, data)

\* push as an overwrite of the collection: only the new entry remains
PushOverwrite(store, path, key, data) == write(store, path, << <<key, data>> >>)

\* push(path, data): MOCK_DB[path][key] = data under a fresh key
push(store, path, key, data) ==
    LET base == IF path \in DOMAIN store THEN store[path] ELSE <<>>
    IN  write(store, path, Append(base, <<key, data>>))

\* str(uuid.uuid4()): the n-th generated key
Uuid(n) == <<"uuid", n>>

-----------------------------------------------------------------------------
(* DataFrames: [cols |-> set of column names, rows |-> sequence of rows],   *)
(* a row being a function from cols to cells                               *)

\* pd.DataFrame()
EmptyDF == [cols |-> {}, rows |-> <<>>]

\* df.empty
IsEmpty(df) == Len(df.rows) = 0 \/ df.cols = {}

\* pd.DataFrame([dict(key=k, **v) for k, v in data.items()]): the columns are
\* the union of the records' fields, a field a record lacks is NaN in its row
FrameOf(data) ==
    LET cols == {"key"} \cup UNION {DOMAIN data[i][2] : i \in 1..Len(data)}
    IN  [cols |-> cols,
         rows |-> [i \in 1..Len(data) |->
                     [c \in cols |-> IF c = "key" THEN data[i][1]
                                     ELSE IF c \in DOMAIN data[i][2] THEN data[i][2][c]
                                     ELSE NaN]]]

\* pd.DataFrame(data.values()): the same without the key column
FrameOfValues(data) ==
    LET cols == UNION {DOMAIN data[i][2] : i \in 1..Len(data)}
    IN  [cols |-> cols,
         rows |-> [i \in 1..Len(data) |->
                     [c \in cols |-> IF c \in DOMAIN data[i][2] THEN data[i][2][c]
                                     ELSE NaN]]]

\* the cells of one column, in row order
Column(df, c) == [i \in 1..Len(df.rows) |-> df.rows[i][c]]

\* df[c] = f(df[c])
MapColumn(df, c, F(_)) ==
    [df EXCEPT !.rows = [i \in 1..Len(df.rows) |-> [df.rows[i] EXCEPT ![c] = F(@)]]]

\* pd.to_datetime on one cell: a missing date is NaT
ToDatetimeCell(c) == IF c[1] = "ymd" THEN <<"ts", ParseDate(c)>> ELSE NaT

\* pd.to_datetime raises on a text that is no date
DateRaises(df) == \E i \in 1..Len(df.rows) : df.rows[i]["date"][1] = "str"

\* pd.to_numeric(errors='coerce') on one cell
ToNumericCell(c) == IF c[1] = "num" THEN c ELSE NaN

\* the permutations of 1..n
Perms(n) == {p \in [1..n -> 1..n] : \A i, j \in 1..n : i # j => p[i] # p[j]}

\* row a must come before row b under sort_values(by='date', ascending=False),
\* na_position='last'
DateBefore(a, b) ==
    /\ a["date"][1] = "ts"
    /\ \/ b["date"][1] = "nat"
       \/ b["date"][1] = "ts" /\ a["date"][2] > b["date"][2]

\* One way of breaking ties: the rows in their given order (what a stable sort
\* keeps).  TieOrders is what kind='quicksort', the default of sort_values, may
\* produce: any order of the rows that compare equal.
StableTies(p, rows) ==
    \A i, j \in 1..Len(rows) :
        (i < j /\ ~DateBefore(rows[p[i]], rows[p[j]])
               /\ ~DateBefore(rows[p[j]], rows[p[i]])) => p[i] < p[j]

TieOrders(p, rows) == TRUE

\* df.sort_values(by='date', ascending=False).reset_index(drop=True): the set of
\* frames the call may return
SortValuesDateDesc(df) ==
    LET n == Len(df.rows)
    IN  {[df EXCEPT !.rows = [i \in 1..n |-> df.rows[p[i]]]] :
            p \in {q \in Perms(n) :
                     /\ \A i, j \in 1..n :
                           i < j => ~DateBefore(df.rows[q[j]], df.rows[q[i]])
                     /\ TieOrders(q, df.rows)}}

\* A call's outcome: the frame returned, or the exception raised
Returned(df) == [exc |-> "none", df |-> df]
Raised(e) == [exc |-> e, df |-> EmptyDF]

\* get_daily_logs(user), uncached: the outcomes of one call
get_daily_logs(store, user) ==
    LET data == ReadOrEmpty(store, <<"daily", user>>)
        df0 == FrameOf(data)
    IN  IF Len(data) = 0 THEN {Returned(EmptyDF)}
        ELSE IF "date" \notin df0.cols THEN {Raised("KeyError")}
        ELSE IF DateRaises(df0) THEN {Raised("ValueError")}
        ELSE IF "productivity" \notin df0.cols \/ "hours" \notin df0.cols
             THEN {Raised("KeyError")}
        ELSE {Returned(df) : df \in
                SortValuesDateDesc(
                   MapColumn(MapColumn(MapColumn(df0, "date", ToDatetimeCell),
                                       "productivity", ToNumericCell),
                             "hours", ToNumericCell))}

\* get_habit_logs(user), uncached
get_habit_logs(store, user) ==
    LET data == ReadOrEmpty(store, <<"habits", user>>)
        df0 == FrameOf(data)
    IN  IF Len(data) = 0 THEN {Returned(EmptyDF)}
        ELSE IF "date" \notin df0.cols THEN {Raised("KeyError")}
        ELSE IF DateRaises(df0) THEN {Raised("ValueError")}
        ELSE {Returned(df) : df \in
                SortValuesDateDesc(MapColumn(df0, "date", ToDatetimeCell))}

-----------------------------------------------------------------------------
(* @st.cache_data(ttl=600): entries keyed by <<function, user>>, each        *)
(* [at |-> time stored, df |-> value]; an exception is not stored           *)

Fresh(mem, k, clk) == k \in DOMAIN mem /\ NowTs(clk) < mem[k].at + TTL

Uncached(fn, store, user) ==
    IF fn = "daily" THEN get_daily_logs(store, user) ELSE get_habit_logs(store, user)

\* one call through the decorator: the set of [res, mem] it may end with
Cached(fn, store, mem, clk, user) ==
    LET k == <<fn, user>>
    IN  IF Fresh(mem, k, clk)
        THEN {[res |-> Returned(mem[k].df), mem |-> mem]}
        ELSE {[res |-> r,
               mem |-> IF r.exc = "none"
                       THEN [x \in DOMAIN mem \cup {k} |->
                               IF x = k THEN [at |-> NowTs(clk), df |-> r.df]
                               ELSE mem[x]]
                       ELSE [x \in DOMAIN mem \ {k} |-> mem[x]]] :
              r \in Uncached(fn, store, user)}

-----------------------------------------------------------------------------
(* Series reductions *)

\* the numbers of a column (NaN skipped), and .mean().round(d): the mean of the
\* numbers in units of 1/mult of the stored unit, rounded half to even; NaN when
\* the column holds no number
Numbers(cells) == SelectSeq(cells, IsNum)

Values(cells) == [i \in 1..Len(cells) |-> cells[i][2]]

RoundHalfEven(a, b) ==
    LET q == a \div b
        r == a % b
    IN  IF 2 * r < b THEN q
        ELSE IF 2 * r > b THEN q + 1
        ELSE IF q % 2 = 0 THEN q ELSE q + 1

MeanRound(cells, mult) ==
    LET nums == Numbers(cells)
    IN  IF Len(nums) = 0 THEN NaN
        ELSE Num(RoundHalfEven(SumSeq(Values(nums)) * mult, Len(nums)))

\* comparisons of a float with a threshold: False when the float is NaN
Lt(c, t) == IsNum(c) /\ c[2] < t
Ge(c, t) == IsNum(c) /\ c[2] >= t

\* Series.mean() of a column that was not coerced: an object column (one holding
\* a text) raises TypeError
ObjectColumn(cells) == \E i \in 1..Len(cells) : cells[i][1] = "str"

\* df[mask] for a row predicate
Rows(df, Test(_)) == [df EXCEPT !.rows = SelectSeq(df.rows, Test)]

\* df.head(n)
HeadDF(df, n) == [df EXCEPT !.rows = Head_n(df.rows, n)]

\* df[[c1, c2, ...]]
Project(df, cs) ==
    [cols |-> cs, rows |-> [i \in 1..Len(df.rows) |-> [c \in cs |-> df.rows[i][c]]]]

-----------------------------------------------------------------------------
(* What a script run displays: [page, exc, out]; exc is the exception that  *)
(* ended the run ("none" when the page was rendered), out the page's data   *)

Shown(page, out) == [page |-> page, exc |-> "none", out |-> out]
Failed(page, e) == [page |-> page, exc |-> e, out |-> <<>>]

\* a page function's result: what is displayed and the memo cache it leaves
Run(v, mem) == [v |-> v, mem |-> mem]

-----------------------------------------------------------------------------
(* dashboard() *)

\* one_week_ago.strftime('%Y-%m-%d') as compared with the date column: midnight
\* of the calendar day 7 days before now
\* the boundary as an instant: now - 7 days with the time of day kept
OneWeekAgoTimeOfDay(clk) == NowTs(clk) - WindowDays * SecondsPerDay

OneWeekAgo(clk) == ParseDate(Strftime(NowTs(clk) - WindowDays * SecondsPerDay))

\* df_work['date'] >= one_week_ago.strftime('%Y-%m-%d'), one row
Recent(row, clk) == row["date"][1] = "ts" /\ row["date"][2] >= OneWeekAgo(clk)

\* len(df_proj[df_proj['progress'] < 100]) if not df_proj.empty else 0
ActiveProjects(df_proj) ==
    IF IsEmpty(df_proj) THEN 0
    ELSE LET Open(row) == Lt(row["progress"], 100)
         IN  Len(SelectSeq(df_proj.rows, Open))

\* the part of dashboard() after the four frames are loaded
DashboardBody(df_work, df_proj, df_learn, clk) ==
    LET InWindow(row) == Recent(row, clk)
        recent == Rows(df_work, InWindow)
        head == [total_logs |-> Len(df_work.rows),
                 active_projects |-> ActiveProjects(df_proj),
                 concepts |-> Len(df_learn.rows),
                 avg_prod_all |-> IF IsEmpty(df_work) THEN Num(0)
                                  ELSE MeanRound(Column(df_work, "productivity"), 100)]
        none == [summary |-> "none", count |-> 0, recent |-> <<>>,
                 avg_hours |-> NaN, avg_prod |-> NaN, avg_energy |-> NaN]
    IN  IF ~IsEmpty(df_proj) /\ "progress" \notin df_proj.cols
        THEN Failed("Dashboard", "KeyError")
        ELSE IF IsEmpty(df_work)
        THEN Shown("Dashboard", DictUpdate(none, head))
        ELSE IF IsEmpty(recent)
        THEN Shown("Dashboard", DictUpdate([none EXCEPT !.summary = "no_recent"], head))
        ELSE IF "energy" \notin recent.cols
        THEN Failed("Dashboard", "KeyError")
        ELSE IF ObjectColumn(Column(recent, "energy"))
        THEN Failed("Dashboard", "TypeError")
        ELSE Shown("Dashboard", DictUpdate(
               [summary |-> "metrics",
                count |-> Len(recent.rows),
                recent |-> Column(recent, "key"),
                avg_hours |-> MeanRound(Column(recent, "hours"), 1),
                avg_prod |-> MeanRound(Column(recent, "productivity"), 100),
                avg_energy |-> MeanRound(Column(recent, "energy"), 100)], head))

dashboard(store, mem, clk, user) ==
    UNION {
      IF a.res.exc # "none" THEN {Run(Failed("Dashboard", a.res.exc), a.mem)}
      ELSE {IF b.res.exc # "none" THEN Run(Failed("Dashboard", b.res.exc), b.mem)
            ELSE Run(DashboardBody(a.res.df,
                                   FrameOfValues(ReadOrEmpty(store, <<"projects", user>>)),
                                   FrameOfValues(ReadOrEmpty(store, <<"learning", user>>)),
                                   clk), b.mem) :
            b \in Cached("habits", store, a.mem, clk, user)} :
      a \in Cached("daily", store, mem, clk, user)}

-----------------------------------------------------------------------------
(* daily_planner(), the part that displays *)

PlannerKey(user, clk) == <<"planner", user, Today(clk)>>

daily_planner(store, mem, clk, user) ==
    LET current_plan == ReadOrEmpty(store, PlannerKey(user, clk))
    IN  IF DOMAIN current_plan = {}
        THEN {Run(Shown("Daily Planner", [plan |-> <<>>]), mem)}
        ELSE IF {"focus_area", "est_hours"} \subseteq DOMAIN current_plan
        THEN {Run(Shown("Daily Planner", [plan |-> current_plan]), mem)}
        ELSE {Run(Failed("Daily Planner", "KeyError"), mem)}

-----------------------------------------------------------------------------
(* daily_work(), the part that displays: the History table *)

HistoryCols == {"date", "hours", "task", "productivity", "energy"}

daily_work(store, mem, clk, user) ==
    {IF a.res.exc # "none" THEN Run(Failed("Daily Log", a.res.exc), a.mem)
     ELSE IF IsEmpty(a.res.df) THEN Run(Shown("Daily Log", [history |-> <<>>]), a.mem)
     ELSE IF ~(HistoryCols \subseteq a.res.df.cols)
          THEN Run(Failed("Daily Log", "KeyError"), a.mem)
     ELSE Run(Shown("Daily Log",
                    [history |-> HeadDF(Project(a.res.df, HistoryCols), HeadHistory).rows]),
              a.mem) :
     a \in Cached("daily", store, mem, clk, user)}

-----------------------------------------------------------------------------
(* projects() and learning(), the parts that display *)

projects(store, mem, clk, user) ==
    LET data == ReadOrEmpty(store, <<"projects", user>>)
        df == FrameOf(data)
    IN  IF Len(data) = 0 THEN {Run(Shown("Projects", [table |-> <<>>]), mem)}
        ELSE IF ~({"name", "progress", "updated", "notes"} \subseteq df.cols)
        THEN {Run(Failed("Projects", "KeyError"), mem)}
        ELSE {Run(Shown("Projects", [table |-> df.rows]), mem)}

learning(store, mem, clk, user) ==
    LET data == ReadOrEmpty(store, <<"learning", user>>)
        df == FrameOfValues(data)
    IN  IF Len(data) = 0 THEN {Run(Shown("Learning", [table |-> <<>>]), mem)}
        ELSE IF ~({"date", "topic", "source", "keywords"} \subseteq df.cols)
        THEN {Run(Failed("Learning", "KeyError"), mem)}
        ELSE {Run(Shown("Learning", [count |-> Len(df.rows)]), mem)}

-----------------------------------------------------------------------------
(* weekly_goals(), the part that displays *)

\* datetime.now().isocalendar().week, as the number of the 7-day week
Week(day) == day \div 7

\* the order of the status texts as strings
StatusRank(st) ==
    CASE st = "Completed" -> 1
      [] st = "Failed/Deferred" -> 2
      [] st = "In Progress" -> 3
      [] OTHER -> 4

\* rows sorted by a strict order, rows that compare equal kept in their order
StableSort(rows, Before(_, _)) ==
    LET n == Len(rows)
        p == CHOOSE q \in Perms(n) :
                \A i, j \in 1..n :
                    i < j => /\ ~Before(rows[q[j]], rows[q[i]])
                             /\ (~Before(rows[q[i]], rows[q[j]]) => q[i] < q[j])
    IN  [i \in 1..n |-> rows[p[i]]]

\* df.sort_values(by=['week', 'status'], ascending=[False, True])
GoalBefore(a, b) ==
    \/ a["week"] > b["week"]
    \/ a["week"] = b["week"] /\ StatusRank(a["status"]) < StatusRank(b["status"])

\* current_week_df
CurrentWeekGoals(store, clk, user) ==
    LET data == ReadOrEmpty(store, <<"goals", user>>)
        ThisWeek(row) == row["week"] = Week(clk.day)
    IN  SelectSeq(StableSort(FrameOf(data).rows, GoalBefore), ThisWeek)

\* update_data['goal'].tolist(): the goals offered for a status update
GoalOptions(store, clk, user) ==
    LET NotDone(row) == row["status"] # "Completed"
        open == SelectSeq(CurrentWeekGoals(store, clk, user), NotDone)
    IN  [i \in 1..Len(open) |-> open[i]["goal"]]

\* current_week_df[current_week_df['goal'] == goal_to_update]['key'].iloc[0]
KeyToUpdate(store, clk, user, goal_to_update) ==
    LET Named(row) == row["goal"] = goal_to_update
    IN  SelectSeq(CurrentWeekGoals(store, clk, user), Named)[1]["key"]

weekly_goals(store, mem, clk, user) ==
    LET cur == CurrentWeekGoals(store, clk, user)
    IN  {Run(Shown("Weekly Goals",
                   [goals |-> [i \in 1..Len(cur) |->
                                 [c \in {"goal", "status", "target"} |-> cur[i][c]]],
                    options |-> GoalOptions(store, clk, user)]), mem)}

-----------------------------------------------------------------------------
(* habits() *)

\* sum(x.values()) of one completion map
TotalDone(cell) == Cardinality({h \in DOMAIN cell[2] : cell[2][h]})

IsMap(cell) == cell[1] = "map"

\* df_habits[df_habits['date'].dt.strftime('%Y-%m-%d') == today]
TodayLog(df, clk) ==
    LET IsToday(row) == row["date"][1] = "ts" /\ Strftime(row["date"][2]) = Today(clk)
    IN  SelectSeq(df.rows, IsToday)

\* habits() up to the form: the exception raised, or is_logged, current_checked
\* and the key an update would address
HabitsHead(df, clk) ==
    LET none == [exc |-> "none", is_logged |-> FALSE, current_checked |-> <<>>, key |-> None]
    IN  IF "date" \notin df.cols THEN [none EXCEPT !.exc = "KeyError"]
        ELSE IF Len(TodayLog(df, clk)) = 0 THEN none
        ELSE IF "habits" \notin df.cols THEN [none EXCEPT !.exc = "KeyError"]
        ELSE IF ~IsMap(TodayLog(df, clk)[1]["habits"])
             THEN [none EXCEPT !.exc = "AttributeError"]
        ELSE [exc |-> "none", is_logged |-> TRUE,
              current_checked |-> TodayLog(df, clk)[1]["habits"][2],
              key |-> TodayLog(df, clk)[1]["key"]]

\* df_habits['total_done'] = df_habits['habits'].apply(lambda x: sum(x.values()))
TotalDoneRaises(df) ==
    IF "habits" \notin df.cols THEN "KeyError"
    ELSE IF \E i \in 1..Len(df.rows) : ~IsMap(df.rows[i]["habits"]) THEN "AttributeError"
    ELSE "none"

TotalDoneColumn(df) == [i \in 1..Len(df.rows) |-> Num(TotalDone(df.rows[i]["habits"]))]

HabitsBody(df, clk) ==
    LET h == HabitsHead(df, clk)
    IN  IF h.exc # "none" THEN Failed("Habits", h.exc)
        ELSE IF IsEmpty(df)
        THEN Shown("Habits", [is_logged |-> h.is_logged,
                              current_checked |-> h.current_checked,
                              total_done |-> <<>>])
        ELSE IF TotalDoneRaises(df) # "none" THEN Failed("Habits", TotalDoneRaises(df))
        ELSE Shown("Habits", [is_logged |-> h.is_logged,
                              current_checked |-> h.current_checked,
                              total_done |-> TotalDoneColumn(df)])

habits(store, mem, clk, user) ==
    {IF a.res.exc # "none" THEN Run(Failed("Habits", a.res.exc), a.mem)
     ELSE Run(HabitsBody(a.res.df, clk), a.mem) :
     a \in Cached("habits", store, mem, clk, user)}

-----------------------------------------------------------------------------
(* graphs_and_insights() *)

\* tab2: the suggestion rules over the aggregates; avg_habits is <<"unset">>
\* when the habit frame is empty (the rule is then not evaluated)
SuggestProductivity(avg_productivity) ==
    IF Lt(avg_productivity, 380) THEN <<"productivity_low">>
    ELSE IF Ge(avg_productivity, 450) THEN <<"productivity_excellent">>
    ELSE <<>>

SuggestEnergy(avg_energy) == IF Lt(avg_energy, 350) THEN <<"energy_low">> ELSE <<>>

SuggestHabits(avg_habits) == IF Lt(avg_habits, 50) THEN <<"habits_low">> ELSE <<>>

SuggestHours(avg_hours) == IF Lt(avg_hours, 350) THEN <<"hours_low">> ELSE <<>>

\* the rules as one if/elif chain: only the first matching rule fires
SuggestionsElif(avg_productivity, avg_energy, avg_habits, avg_hours) ==
    LET all == SuggestProductivity(avg_productivity) \o SuggestEnergy(avg_energy)
                  \o SuggestHabits(avg_habits) \o SuggestHours(avg_hours)
    IN  Head_n(all, 1)

Suggestions(avg_productivity, avg_energy, avg_habits, avg_hours) ==
    SuggestProductivity(avg_productivity) \o SuggestEnergy(avg_energy)
        \o SuggestHabits(avg_habits) \o SuggestHours(avg_hours)

\* recent_habits = df_habits.head(7); avg_habits = total_done.mean().round(1)
RecentHabits(df_habits) == HeadDF(df_habits, HeadHabits)

AvgHabits(df_habits) ==
    IF IsEmpty(df_habits) THEN <<"unset">>
    ELSE MeanRound(TotalDoneColumn(RecentHabits(df_habits)), 10)

\* tab2 for a non-empty work frame: the exception raised or the aggregates
Tab2(df_work, df_habits) ==
    LET agg == [avg_productivity |-> MeanRound(Column(df_work, "productivity"), 100),
                avg_energy |-> MeanRound(Column(df_work, "energy"), 100),
                avg_hours |-> MeanRound(Column(df_work, "hours"), 10),
                avg_habits |-> AvgHabits(df_habits)]
    IN  IF "energy" \notin df_work.cols THEN [exc |-> "KeyError"]
        ELSE IF ObjectColumn(Column(df_work, "energy")) THEN [exc |-> "TypeError"]
        ELSE IF ~IsEmpty(df_habits) /\ TotalDoneRaises(df_habits) # "none"
             THEN [exc |-> TotalDoneRaises(df_habits)]
        ELSE DictUpdate(DictUpdate([exc |-> "none"], agg),
                        [suggestions |-> Suggestions(agg.avg_productivity, agg.avg_energy,
                                                     agg.avg_habits, agg.avg_hours)])

\* user.title()
Title(user) ==
    CASE user = "manav" -> "Manav"
      [] user = "kaaysha" -> "Kaaysha"
      [] user = "pranav" -> "Pranav"
      [] OTHER -> user

\* tab3: one comp_entry
CompEntry(user, df_user, df_habits_user) ==
    ("User" :> Title(user)) @@
    ("Total Logs" :> Num(Len(df_user.rows))) @@
    ("Avg Hours" :> IF IsEmpty(df_user) THEN Num(0)
                    ELSE MeanRound(Column(df_user, "hours"), 10)) @@
    ("Avg Prod" :> IF IsEmpty(df_user) THEN Num(0)
                   ELSE MeanRound(Column(df_user, "productivity"), 100)) @@
    ("Habit Days" :> Num(Len(df_habits_user.rows)))

\* tab3: the loop over users_list from index i on; the set of
\* [exc, rows, mem] it may end with
RECURSIVE ComparisonData(_, _, _, _, _)
ComparisonData(i, rows, store, mem, clk) ==
    IF i > Len(USERS) THEN {[exc |-> "none", rows |-> rows, mem |-> mem]}
    ELSE UNION {
           IF a.res.exc # "none" THEN {[exc |-> a.res.exc, rows |-> rows, mem |-> a.mem]}
           ELSE UNION {
                  IF b.res.exc # "none"
                  THEN {[exc |-> b.res.exc, rows |-> rows, mem |-> b.mem]}
                  ELSE ComparisonData(i + 1,
                                      Append(rows, CompEntry(USERS[i], a.res.df, b.res.df)),
                                      store, b.mem, clk) :
                  b \in Cached("habits", store, a.mem, clk, USERS[i])} :
           a \in Cached("daily", store, mem, clk, USERS[i])}

NumericColumns == {"Avg Hours", "Avg Prod", "Total Logs", "Habit Days"}

\* s.max(): the largest number of a column (NaN skipped), NaN when there is none
ColumnMax(rows, c) ==
    LET nums == {rows[i][c][2] : i \in {j \in 1..Len(rows) : IsNum(rows[j][c])}}
    IN  IF nums = {} THEN NaN ELSE Num(CHOOSE m \in nums : \A x \in nums : x <= m)

\* idxmax-style marking: only the first row holding the column maximum
HighlightFirstMax(rows) ==
    [i \in 1..Len(rows) |->
        [c \in NumericColumns |->
            /\ IsNum(rows[i][c]) /\ rows[i][c] = ColumnMax(rows, c)
            /\ \A j \in 1..(i - 1) : rows[j][c] # rows[i][c]]]

\* highlight_max applied to each column of the subset: is_max per row
HighlightMax(rows) ==
    [i \in 1..Len(rows) |->
        [c \in NumericColumns |-> IsNum(rows[i][c]) /\ rows[i][c] = ColumnMax(rows, c)]]

\* tab1: df.melt(value_vars=['mood', 'productivity', 'energy']) and the charts
\* need these columns
Tab1Cols == {"date", "hours", "mood", "productivity", "energy"}

graphs_and_insights(store, mem, clk, user) ==
    UNION {
      IF a.res.exc # "none" THEN {Run(Failed("Graphs & Insights", a.res.exc), a.mem)}
      ELSE IF ~IsEmpty(a.res.df) /\ ~(Tab1Cols \subseteq a.res.df.cols)
      THEN {Run(Failed("Graphs & Insights", "KeyError"), a.mem)}
      ELSE UNION {
        IF b.res.exc # "none" THEN {Run(Failed("Graphs & Insights", b.res.exc), b.mem)}
        ELSE IF IsEmpty(a.res.df)
        THEN {Run(Shown("Graphs & Insights", [tabs |-> "no_logs"]), b.mem)}
        ELSE IF Tab2(a.res.df, b.res.df).exc # "none"
        THEN {Run(Failed("Graphs & Insights", Tab2(a.res.df, b.res.df).exc), b.mem)}
        ELSE {IF c.exc # "none" THEN Run(Failed("Graphs & Insights", c.exc), c.mem)
              ELSE Run(Shown("Graphs & Insights",
                             [tabs |-> "all",
                              tab2 |-> Tab2(a.res.df, b.res.df),
                              comparison |-> c.rows,
                              is_max |-> HighlightMax(c.rows)]), c.mem) :
              c \in ComparisonData(1, <<>>, store, b.mem, clk)} :
        b \in Cached("habits", store, a.mem, clk, user)} :
      a \in Cached("daily", store, mem, clk, user)}

-----------------------------------------------------------------------------
(* The main router: one script run for a session *)

LoginView(error) == Shown("Login", [error |-> error])

LoggedIn(sess) == "user" \in DOMAIN sess

\* st.session_state.get("page", "Dashboard")
PageOf(sess) == GetOr(sess, "page", "Dashboard")

\* page_functions[page]()
PageFunction(page, store, mem, clk, user) ==
    CASE page = "Dashboard" -> dashboard(store, mem, clk, user)
      [] page = "Daily Planner" -> daily_planner(store, mem, clk, user)
      [] page = "Daily Log" -> daily_work(store, mem, clk, user)
      [] page = "Projects" -> projects(store, mem, clk, user)
      [] page = "Learning" -> learning(store, mem, clk, user)
      [] page = "Weekly Goals" -> weekly_goals(store, mem, clk, user)
      [] page = "Habits" -> habits(store, mem, clk, user)
      [] page = "Graphs & Insights" -> graphs_and_insights(store, mem, clk, user)
      [] OTHER -> {Run(Shown("Page not found!", <<>>), mem)}

\* one run of the script from the top
Script(store, mem, clk, sess) ==
    IF ~LoggedIn(sess) THEN {Run(LoginView(FALSE), mem)}
    ELSE PageFunction(PageOf(sess), store, mem, clk, sess["user"])

\* the rerun that ends a click's script run: the next state's view and cache
Rerun(store, mem, sess) ==
    \E r \in Script(store, mem, clock, sess) :
        /\ view' = r.v
        /\ cache' = r.mem

-----------------------------------------------------------------------------
(* generate_user_data and MOCK_DB *)

\* the random draws of generate_user_data: each draw takes the low or the high
\* end of its range
Draws == {"lo", "hi"}

SeedKey(coll, n) == <<coll, n>>

\* the completion map with the first n habits done
FirstDone(n) == [h \in Range(HABITS) |-> \E i \in 1..n : HABITS[i] = h]

SeedWork(is_high_performer, draw, date_str) ==
    [task |-> "Completed LeetCode Medium and reviewed the optimal solution.",
     hours |-> Num(IF is_high_performer THEN (IF draw = "lo" THEN 40 ELSE 75)
                   ELSE (IF draw = "lo" THEN 25 ELSE 55)),
     mood |-> Num(IF draw = "hi" THEN 5 ELSE IF is_high_performer THEN 4 ELSE 3),
     productivity |-> Num(IF draw = "hi" THEN 5 ELSE IF is_high_performer THEN 4 ELSE 3),
     energy |-> Num(IF draw = "hi" THEN 5 ELSE IF is_high_performer THEN 4 ELSE 3),
     date |-> date_str]

SeedHabits(is_high_performer, draw, date_str) ==
    [date |-> date_str,
     habits |-> <<"map", FirstDone(IF draw = "hi" THEN Len(HABITS)
                                   ELSE IF is_high_performer THEN 6 ELSE 4)>>]

generate_user_data(user, is_high_performer, draw, today) ==
    (<<"daily", user>> :>
        [i \in 1..SeedDays |->
            <<SeedKey("daily", i),
              SeedWork(is_high_performer, draw, Ymd(today - (i - 1)))>>]) @@
    (<<"habits", user>> :>
        [i \in 1..SeedDays |->
            <<SeedKey("habits", i),
              SeedHabits(is_high_performer, draw, Ymd(today - (i - 1)))>>]) @@
    (<<"projects", user>> :>
        << <<SeedKey("p", 1),
             [name |-> "Semester Project (AI/ML Model)",
              progress |-> Num(IF is_high_performer THEN 75 ELSE 50),
              notes |-> "Need to integrate final testing dataset.",
              updated |-> "2025-11-28"]>>,
           <<SeedKey("p", 2),
             [name |-> "Personal Portfolio Website",
              progress |-> Num(IF is_high_performer THEN 90 ELSE 70),
              notes |-> "Final CSS styling and deployment pending.",
              updated |-> "2025-12-01"]>> >>) @@
    (<<"learning", user>> :>
        << <<SeedKey("l", 1),
             [topic |-> "Transformer Architecture (Attention Mechanism)",
              source |-> "Deep Learning Book Chapter 5", link |-> "",
              keywords |-> <<"NLP", "AI", "DL">>, date |-> "2025-12-01"]>>,
           <<SeedKey("l", 2),
             [topic |-> "Advanced Pandas Vectorization",
              source |-> "YouTube - Data Science Channel", link |-> "link_to_video",
              keywords |-> <<"Data Science", "Python">>, date |-> "2025-11-28"]>> >>) @@
    (<<"goals", user>> :>
        << <<SeedKey("g", 1),
             [goal |-> "Complete 10 LeetCode Mediums",
              target |-> "Must include 3 DP problems.",
              week |-> Week(today), status |-> "In Progress"]>>,
           <<SeedKey("g", 2),
             [goal |-> "Finish 2 chapters of DL book review",
              target |-> "100% conceptual clarity.",
              week |-> Week(today), status |-> "To Do"]>>,
           <<SeedKey("g", 3),
             [goal |-> "Fixed Project Bug",
              target |-> "Authentication bug resolved.",
              week |-> Week(today - 7), status |-> "Completed"]>> >>) @@
    (<<"planner", user, Ymd(today)>> :>
        [p1 |-> "Solve today's LeetCode problem", est_hours |-> Num(45),
         focus_area |-> "DSA/AI"])

MOCK_DB(draw, today) ==
    generate_user_data("manav", TRUE, draw, today) @@
    generate_user_data("kaaysha", FALSE, draw, today) @@
    generate_user_data("pranav", TRUE, draw, today)

-----------------------------------------------------------------------------
(* State after the script is first loaded *)

Init ==
    /\ \E draw \in Draws : db = MOCK_DB(draw, StartDay)
    /\ cache = <<>>
    /\ session = <<>>
    /\ clock = [day |-> StartDay, sec |-> 0]
    /\ keys = 0
    /\ clicks = 0
    /\ view = LoginView(FALSE)

-----------------------------------------------------------------------------
(* What the user may type into the forms *)

Usernames == Roster \cup {"guest"}
Passwords == {"1234", "0000"}

LogForms ==
    {[task |-> "", hours |-> Num(0), mood |-> Num(3), productivity |-> Num(3),
      energy |-> Num(3)],
     [task |-> "Revised DP patterns", hours |-> Num(55), mood |-> Num(4),
      productivity |-> Num(5), energy |-> Num(4)]}

HabitForms == {FirstDone(0), FirstDone(5)}

PlanForms ==
    {[p1 |-> "K-Means implementation", p2 |-> "", p3 |-> "", est_hours |-> Num(40),
      focus_area |-> "DSA/Algorithms"],
     [p1 |-> "Revise DP", p2 |-> "Flashcards", p3 |-> "", est_hours |-> Num(65),
      focus_area |-> "AI/ML Project"]}

ProjectForms == {[name |-> "4th Sem AI Project", progress |-> Num(0), notes |-> ""]}

LearningForms ==
    {[topic |-> "DP", source |-> "LeetCode 100", link |-> "", keywords |-> <<"DP">>]}

GoalForms ==
    {[goal |-> "Complete 10 LeetCode Mediums", target |-> "", status |-> "To Do"]}

StatusOptions == {"In Progress", "Completed"}

-----------------------------------------------------------------------------
(* Actions: one click each, with the rerun it triggers *)

\* a hard-coded username in place of the session user
FirstRosterUser == USERS[1]

\* st.session_state['user']
User == session["user"]

\* every click starts one script run
Click == clicks < MaxClicks /\ clicks' = clicks + 1

\* a login that checks the username only
LoginAnyPassword(username, password) ==
    /\ Click
    /\ ~LoggedIn(session)
    /\ IF username \in Roster
       THEN /\ session' = [user |-> username, page |-> "Dashboard"]
            /\ Rerun(db, cache, session')
       ELSE /\ session' = session
            /\ view' = LoginView(TRUE)
            /\ cache' = cache
    /\ UNCHANGED <<db, clock, keys>>

\* login_page: the Login button
Login(username, password) ==
    /\ Click
    /\ ~LoggedIn(session)
    /\ IF username \in Roster /\ Password(username) = password
       THEN /\ session' = [user |-> username, page |-> "Dashboard"]
            /\ Rerun(db, cache, session')
       ELSE /\ session' = session
            /\ view' = LoginView(TRUE)
            /\ cache' = cache
    /\ UNCHANGED <<db, clock, keys>>

\* navbar: a page button
NavTo(pg) ==
    /\ Click
    /\ LoggedIn(session)
    /\ session' = [session EXCEPT !["page"] = pg]
    /\ Rerun(db, cache, session')
    /\ UNCHANGED <<db, clock, keys>>

\* navbar: the Logout button
Logout ==
    /\ Click
    /\ LoggedIn(session)
    /\ session' = <<>>
    /\ Rerun(db, cache, session')
    /\ UNCHANGED <<db, clock, keys>>

\* a script run that no button started (a widget was touched, the page reloaded)
Rerender ==
    /\ Click
    /\ LoggedIn(session)
    /\ Rerun(db, cache, session)
    /\ UNCHANGED <<db, session, clock, keys>>

\* daily_planner: Save Today's Plan
SavePlan(form) ==
    /\ Click
    /\ LoggedIn(session) /\ PageOf(session) = "Daily Planner"
    /\ db' = write(db, PlannerKey(User, clock),
                   DictUpdate([date |-> Today(clock)], form))
    /\ Rerun(db', cache, session)
    /\ UNCHANGED <<session, clock, keys>>

\* daily_work: Save Log
SaveLog(form) ==
    /\ Click
    /\ LoggedIn(session) /\ PageOf(session) = "Daily Log"
    /\ keys < MaxKeys
    /\ keys' = keys + 1
    /\ db' = push(db, <<"daily", User>>, Uuid(keys'),
                  DictUpdate(form, [date |-> Today(clock)]))
    /\ Rerun(db', cache, session)
    /\ UNCHANGED <<session, clock>>

\* projects: Save Project
SaveProject(form) ==
    /\ Click
    /\ LoggedIn(session) /\ PageOf(session) = "Projects"
    /\ keys < MaxKeys
    /\ keys' = keys + 1
    /\ db' = push(db, <<"projects", User>>, Uuid(keys'),
                  DictUpdate(form, [updated |-> Today(clock)]))
    /\ Rerun(db', cache, session)
    /\ UNCHANGED <<session, clock>>

\* learning: Save Learning
SaveLearning(form) ==
    /\ Click
    /\ LoggedIn(session) /\ PageOf(session) = "Learning"
    /\ keys < MaxKeys
    /\ keys' = keys + 1
    /\ db' = push(db, <<"learning", User>>, Uuid(keys'),
                  DictUpdate(form, [date |-> Today(clock)]))
    /\ Rerun(db', cache, session)
    /\ UNCHANGED <<session, clock>>

\* weekly_goals: Add Goal
AddGoal(form) ==
    /\ Click
    /\ LoggedIn(session) /\ PageOf(session) = "Weekly Goals"
    /\ keys < MaxKeys
    /\ keys' = keys + 1
    /\ db' = push(db, <<"goals", User>>, Uuid(keys'),
                  DictUpdate(form, [week |-> Week(clock.day), created |-> Today(clock)]))
    /\ Rerun(db', cache, session)
    /\ UNCHANGED <<session, clock>>

\* weekly_goals: Quick Status Update
UpdateGoal(goal_to_update, new_status) ==
    /\ Click
    /\ LoggedIn(session) /\ PageOf(session) = "Weekly Goals"
    /\ goal_to_update \in Range(GoalOptions(db, clock, User))
    /\ db' = update(db, <<"goals", User, KeyToUpdate(db, clock, User, goal_to_update)>>,
                    [status |-> new_status])
    /\ Rerun(db', cache, session)
    /\ UNCHANGED <<session, clock, keys>>

\* habits: Save Habits / Update Habits.  The run that handles the click loads
\* df_habits (through the cache) before the form, then updates or pushes.
SubmitHabits(checked) ==
    /\ Click
    /\ LoggedIn(session) /\ PageOf(session) = "Habits"
    /\ \E a \in Cached("habits", db, cache, clock, User) :
         LET h == HabitsHead(a.res.df, clock)
             entry == [date |-> Today(clock), habits |-> <<"map", checked>>]
         IN  /\ a.res.exc = "none" /\ h.exc = "none"
             /\ IF h.is_logged
                THEN /\ db' = update(db, <<"habits", User, h.key>>, entry)
                     /\ keys' = keys
                ELSE /\ keys < MaxKeys
                     /\ keys' = keys + 1
                     /\ db' = push(db, <<"habits", User>>, Uuid(keys'), entry)
             /\ Rerun(db', a.mem, session)
    /\ UNCHANGED <<session, clock>>

\* time passes
Tick ==
    /\ clock.sec + TickSecs <= MaxSec
    /\ clock' = [clock EXCEPT !.sec = @ + TickSecs]
    /\ UNCHANGED <<db, cache, session, keys, clicks, view>>

NextDay ==
    /\ clock.day < StartDay + MaxDays
    /\ clock' = [day |-> clock.day + 1, sec |-> 0]
    /\ UNCHANGED <<db, cache, session, keys, clicks, view>>

Next ==
    \/ \E u \in Usernames, pw \in Passwords : Login(u, pw)
    \/ \E pg \in Range(PAGES) : NavTo(pg)
    \/ Logout
    \/ Rerender
    \/ \E f \in PlanForms : SavePlan(f)
    \/ \E f \in LogForms : SaveLog(f)
    \/ \E f \in ProjectForms : SaveProject(f)
    \/ \E f \in LearningForms : SaveLearning(f)
    \/ \E f \in GoalForms : AddGoal(f)
    \/ \E g \in {f.goal : f \in GoalForms} \cup {"Finish 2 chapters of DL book review"},
          st \in StatusOptions : UpdateGoal(g, st)
    \/ \E c \in HabitForms : SubmitHabits(c)
    \/ Tick
    \/ NextDay

Spec == Init /\ [][Next]_vars

-----------------------------------------------------------------------------
(* The pages over any store contents.  The store is an external collaborator:  *)
(* SpecCore starts from a store holding raw mappings of up to MaxLen records,  *)
(* well-formed or not, and runs the read-only part of the app on it.           *)

\* raw work-log records: every date with the plain profile, every profile today
WorkFields(h, p, e) ==
    [task |-> "t", mood |-> Num(3), hours |-> h, productivity |-> p, energy |-> e]

WorkProfiles ==
    {WorkFields(Num(40), Num(4), Num(4)),
     WorkFields(Num(50), Num(5), Num(5)),
     WorkFields(Num(35), Num(3), Num(3)),
     WorkFields(Num(50), Num(3), Num(4)),
     WorkFields(<<"str", "n/a">>, <<"str", "n/a">>, Num(3)),
     WorkFields(Num(40), Num(4), <<"str", "low">>),
     [task |-> "t", mood |-> Num(3), productivity |-> Num(4)]}

RawDates ==
    {Ymd(StartDay - WindowDays - 1), Ymd(StartDay - WindowDays), Ymd(StartDay),
     <<"str", "soon">>}

RawWork ==
    {DictUpdate(WorkFields(Num(40), Num(4), Num(4)), [date |-> d]) : d \in RawDates}
    \cup {DictUpdate(w, [date |-> Ymd(StartDay)]) : w \in WorkProfiles}

RawHabit ==
    {[date |-> d, habits |-> <<"map", FirstDone(3)>>] : d \in RawDates}
    \cup {[date |-> Ymd(StartDay), habits |-> <<"map", FirstDone(6)>>],
          [date |-> Ymd(StartDay)]}

\* the mappings of at most MaxLen records of a set, under generated keys
RawMaps(recs) ==
    UNION {{[i \in 1..n |-> <<Uuid(i), f[i]>>] : f \in [1..n -> recs]} : n \in 0..MaxLen}

\* a few whole collections
FewDaily ==
    {<<>>,
     << <<Uuid(1), DictUpdate(WorkFields(Num(0), Num(3), Num(4)), [date |-> Ymd(StartDay)])>> >>,
     << <<Uuid(1), DictUpdate(WorkFields(Num(40), Num(4), Num(4)), [date |-> Ymd(StartDay)])>> >>,
     << <<Uuid(1), DictUpdate(WorkFields(Num(50), Num(5), Num(5)), [date |-> Ymd(StartDay)])>>,
        <<Uuid(2), DictUpdate(WorkFields(Num(30), Num(3), Num(3)), [date |-> Ymd(StartDay)])>> >>}

FewHabits ==
    {<<>>,
     << <<Uuid(1), [date |-> Ymd(StartDay), habits |-> <<"map", FirstDone(3)>>]>> >>,
     << <<Uuid(1), [date |-> Ymd(StartDay), habits |-> <<"map", FirstDone(6)>>]>> >>}

\* a store holding the given daily and habits collections (functions over the
\* roster); an absent collection leaves its path out of the store
Absent == [here |-> FALSE, data |-> <<>>]

Held(colls) == {[here |-> TRUE, data |-> c] : c \in colls}

StoreOf(daily, habit) ==
    LET paths == {<<"daily", u>> : u \in {x \in Roster : daily[x].here}}
                 \cup {<<"habits", u>> : u \in {x \in Roster : habit[x].here}}
    IN  [p \in paths |-> IF p[1] = "daily" THEN daily[p[2]].data ELSE habit[p[2]].data]

Only(u, coll) == [x \in Roster |-> IF x = u THEN coll ELSE Absent]

CoreStores ==
    {StoreOf(Only(USERS[1], d), Only(USERS[1], h)) :
        d \in Held(RawMaps(RawWork)), h \in Held(FewHabits \ {<<>>}) \cup {Absent}}
    \cup {StoreOf(Only(USERS[1], d), Only(USERS[1], h)) :
        d \in Held(FewDaily) \cup {Absent}, h \in Held(RawMaps(RawHabit))}
    \cup {StoreOf(d, h) : d \in [Roster -> Held(FewDaily)],
                          h \in [Roster -> Held({<<>>}) \cup {Absent}]}
    \cup {StoreOf(d, h) : d \in [Roster -> Held(FewDaily \ {<<>>})],
                          h \in [Roster -> Held(FewHabits)]}

CorePages == {"Dashboard", "Daily Log", "Habits", "Graphs & Insights"}

InitCore ==
    /\ db \in CoreStores
    /\ cache = <<>>
    /\ session = <<>>
    /\ clock \in {[day |-> StartDay, sec |-> s] : s \in {0, MaxSec}}
    /\ keys = 0
    /\ clicks = MaxClicks - CoreClicks
    /\ view = LoginView(FALSE)

NextCore ==
    \/ \E u \in Roster : Login(u, Password(u))
    \/ \E pg \in CorePages : NavTo(pg)
    \/ Rerender

SpecCore == InitCore /\ [][NextCore]_vars

-----------------------------------------------------------------------------
(* Claims *)

\* what the script would display for a session with the memo cache switched off
UncachedViews(store, clk, sess) == {r.v : r \in Script(store, <<>>, clk, sess)}

\* C1: the read cache does not change what a render shows: after every click of
\* a logged-in session the page displayed is one that an uncached read of the
\* current store contents produces.
C1_CacheTransparent ==
    [][(clicks' # clicks /\ LoggedIn(session'))
          => view' \in UncachedViews(db', clock', session')]_vars

\* the collection with the entry under key k shallow-merged with data
Patched(coll, k, data) ==
    [i \in 1..Len(coll) |->
        IF coll[i][1] = k THEN <<k, DictUpdate(coll[i][2], data)>> ELSE coll[i]]

\* C2: update addressed at an entry path is a shallow merge into that entry:
\* after 'Quick Status Update' (goals) or 'Update Habits' (habits) a read of the
\* collection returns the entry with the patched fields replaced and everything
\* else unchanged.
C2_UpdateMergesIntoEntry ==
    [][LoggedIn(session) =>
       /\ \A g \in Range(GoalOptions(db, clock, User)), st \in StatusOptions :
            UpdateGoal(g, st) =>
               ReadOrEmpty(db', <<"goals", User>>) =
                  Patched(ReadOrEmpty(db, <<"goals", User>>),
                          KeyToUpdate(db, clock, User, g), [status |-> st])
       /\ \A c \in HabitForms :
            (SubmitHabits(c) /\ keys' = keys) =>
               \E a \in Cached("habits", db, cache, clock, User) :
                  /\ HabitsHead(a.res.df, clock).is_logged
                  /\ ReadOrEmpty(db', <<"habits", User>>) =
                        Patched(ReadOrEmpty(db, <<"habits", User>>),
                                HabitsHead(a.res.df, clock).key,
                                [date |-> Today(clock), habits |-> <<"map", c>>])]_vars

-----------------------------------------------------------------------------
(* Claims about the pages over any store contents (SpecCore).  The store and  *)
(* the clock do not change there, so a displayed page is current whenever it  *)
(* is the session's page.                                                      *)

Current == LoggedIn(session) /\ view.page = PageOf(session)

RawDaily(u) == ReadOrEmpty(db, <<"daily", u>>)
RawHabits(u) == ReadOrEmpty(db, <<"habits", u>>)

\* the raw records of a mapping that satisfy a test, in mapping order
Records(raw, Test(_)) ==
    LET Hit(pair) == Test(pair[2])
        hits == SelectSeq(raw, Hit)
    IN  [i \in 1..Len(hits) |-> hits[i][2]]

KeysWhere(raw, Test(_)) == {raw[i][1] : i \in {j \in 1..Len(raw) : Test(raw[j][2])}}

HasDate(rec) == "date" \in DOMAIN rec /\ rec["date"][1] = "ymd"

\* the record's calendar date is on or after the day windowDays before today
InWindowDay(rec) == HasDate(rec) /\ rec["date"][2] >= clock.day - WindowDays

HasNumber(rec, f) == f \in DOMAIN rec /\ rec[f][1] = "num"

\* the flat mean of field f over the records that hold a number there, in units
\* of 1/mult, rounded for display; 0 when no record holds one
SpecMean(recs, f, mult) ==
    LET idx == {i \in 1..Len(recs) : HasNumber(recs[i], f)}
        RECURSIVE Sum(_)
        Sum(S) == IF S = {} THEN 0
                  ELSE LET i == CHOOSE x \in S : TRUE IN recs[i][f][2] + Sum(S \ {i})
    IN  IF idx = {} THEN Num(0)
        ELSE Num(RoundHalfEven(Sum(idx) * mult, Cardinality(idx)))

OnDashboard == Current /\ view.page = "Dashboard"

\* C3: the dashboard's 7-day summary is computed over exactly the entries whose
\* calendar date is on or after today - 7 days, whatever the time of day.
C3_WindowByCalendarDate ==
    (OnDashboard /\ view.exc = "none") =>
        /\ Range(view.out.recent) = KeysWhere(RawDaily(User), InWindowDay)
        /\ view.out.count = Cardinality(KeysWhere(RawDaily(User), InWindowDay))
        /\ (view.out.summary = "metrics") <=> (KeysWhere(RawDaily(User), InWindowDay) # {})

\* a summary taken later than midnight that includes an entry dated exactly on
\* the boundary day and leaves out an entry dated the day before it
C3_BoundaryIncluded ==
    /\ OnDashboard /\ view.exc = "none" /\ clock.sec > 0
    /\ \E i, j \in 1..Len(RawDaily(User)) :
         /\ RawDaily(User)[i][2]["date"] = Ymd(clock.day - WindowDays)
         /\ RawDaily(User)[i][1] \in Range(view.out.recent)
         /\ RawDaily(User)[j][2]["date"] = Ymd(clock.day - WindowDays - 1)
         /\ RawDaily(User)[j][1] \notin Range(view.out.recent)

\* C4: each reported mean is the flat mean over the filtered entries that hold a
\* number in that field, entries without one being skipped but counted, and is
\* 0 (never an error, never not-a-number) when no filtered entry holds one.
C4_MeansSkipMissingDefaultZero ==
    (/\ OnDashboard
     /\ \A i \in 1..Len(RawDaily(User)) : HasDate(RawDaily(User)[i][2])
     /\ KeysWhere(RawDaily(User), InWindowDay) # {}) =>
        /\ view.exc = "none"
        /\ view.out.count = Cardinality(KeysWhere(RawDaily(User), InWindowDay))
        /\ view.out.avg_hours = SpecMean(Records(RawDaily(User), InWindowDay), "hours", 1)
        /\ view.out.avg_prod =
              SpecMean(Records(RawDaily(User), InWindowDay), "productivity", 100)
        /\ view.out.avg_energy =
              SpecMean(Records(RawDaily(User), InWindowDay), "energy", 100)

\* C5: an absent or empty collection is no error: with the user's daily and
\* habits collections absent or empty every page renders and reports zeros.
C5_EmptyCollectionsRender ==
    (Current /\ Len(RawDaily(User)) = 0 /\ Len(RawHabits(User)) = 0) =>
        /\ view.exc = "none"
        /\ view.page = "Dashboard" =>
              /\ view.out.total_logs = 0 /\ view.out.count = 0
              /\ view.out.avg_prod_all = Num(0)
        /\ view.page = "Habits" => view.out.total_done = <<>>

\* the position of a key in a raw mapping
Position(raw, k) == CHOOSE i \in 1..Len(raw) : raw[i][1] = k

\* C6: the normalizers return the entries sorted by date descending, entries of
\* one date in the order of the raw mapping.
C6_SortedDescStable ==
    \A k \in DOMAIN cache :
        LET rows == cache[k].df.rows
            raw == ReadOrEmpty(db, k)
        IN  \A i, j \in 1..Len(rows) :
               i < j => /\ rows[i]["date"][2] >= rows[j]["date"][2]
                        /\ rows[i]["date"][2] = rows[j]["date"][2] =>
                              Position(raw, rows[i]["key"]) < Position(raw, rows[j]["key"])

\* C7: a record whose date cannot be parsed is dropped silently: the page still
\* renders, with all the other records.
C7_BadDateDropped ==
    (/\ Current /\ view.page = "Daily Log"
     /\ \A i \in 1..Len(RawDaily(User)) : HistoryCols \subseteq DOMAIN RawDaily(User)[i][2]) =>
        /\ view.exc = "none"
        /\ Len(view.out.history) = Cardinality(KeysWhere(RawDaily(User), HasDate))


OnInsights == Current /\ view.page = "Graphs & Insights" /\ view.exc = "none"
                /\ view.out.tabs = "all"

\* row i holds the largest number of column c
IsColumnMax(rows, i, c) ==
    /\ IsNum(rows[i][c])
    /\ \A j \in 1..Len(rows) : IsNum(rows[j][c]) => rows[j][c][2] <= rows[i][c][2]

FourRules == {"productivity_low", "energy_low", "habits_low", "hours_low"}

\* the four rules fire exactly on their own predicates
RulesFollowPredicates(t) ==
    /\ ("productivity_low" \in Range(t.suggestions)) <=> Lt(t.avg_productivity, 380)
    /\ ("energy_low" \in Range(t.suggestions)) <=> Lt(t.avg_energy, 350)
    /\ ("habits_low" \in Range(t.suggestions)) <=> Lt(t.avg_habits, 50)
    /\ ("hours_low" \in Range(t.suggestions)) <=> Lt(t.avg_hours, 350)

DailyCompletion(rec) == Cardinality({h \in DOMAIN rec["habits"][2] : rec["habits"][2][h]})

\* C10: the habit consistency metric averages dailyCompletion over exactly the
\* habit entries dated within the trailing window (date >= today - 7 days); it is
\* 0 when no entry passes, and older entries never contribute.
C10_HabitAverageOverWindow ==
    OnInsights =>
        LET recs == Records(RawHabits(User), InWindowDay)
            total == SumSeq([i \in 1..Len(recs) |-> DailyCompletion(recs[i])])
        IN  IF Len(recs) = 0
            THEN view.out.tab2.avg_habits \in {Num(0), <<"unset">>}
            ELSE view.out.tab2.avg_habits = Num(RoundHalfEven(total * 10, Len(recs)))

OnHabits == Current /\ view.page = "Habits"

\* the count of habits mapped to true, 0 for a record without a completion map
CompletionOrZero(rec) ==
    IF "habits" \in DOMAIN rec /\ rec["habits"][1] = "map" THEN DailyCompletion(rec) ELSE 0

\* C11: dailyCompletion of every stored habit entry is the number of habits
\* mapped to true and 0 when the completion map is missing; computing it for
\* the user's entries never raises.
C11_CompletionNeverRaises ==
    (OnHabits /\ Len(RawHabits(User)) > 0
       /\ \A i \in 1..Len(RawHabits(User)) : HasDate(RawHabits(User)[i][2])) =>
        LET raw == RawHabits(User)
            want == [i \in 1..Len(raw) |-> CompletionOrZero(raw[i][2])]
        IN  /\ view.exc = "none"
            /\ Len(view.out.total_done) = Len(raw)
            /\ {view.out.total_done[i] : i \in 1..Len(raw)} = {Num(want[i]) : i \in 1..Len(raw)}
            /\ SumSeq([i \in 1..Len(raw) |-> view.out.total_done[i][2]]) = SumSeq(want)

-----------------------------------------------------------------------------
(* Claims about the writing pages (Spec) *)

\* every path of the old store other than p holds the same value in the new one
OnlyPathChanged(p) ==
    /\ DOMAIN db' = DOMAIN db \cup {p}
    /\ \A q \in DOMAIN db \ {p} : db'[q] = db[q]

IsPrefix(s, t) == Len(s) <= Len(t) /\ \A i \in 1..Len(s) : t[i] = s[i]

-----------------------------------------------------------------------------
(* Claims about the reported numbers (SpecCore) *)

AnyRecord(rec) == TRUE

AllNumeric(raw) ==
    \A i \in 1..Len(raw) : \A f \in {"hours", "productivity", "energy"} : HasNumber(raw[i][2], f)

\* the sum of a numeric field over a raw mapping
FieldSum(raw, f) == SumSeq([i \in 1..Len(raw) |-> raw[i][2][f][2]])

\* C14: rounding happens once, where a number is reported: every reported
\* hours mean has 1 decimal place and every productivity mean 2, and the
\* suggestion rules compare the full-precision means with their thresholds.
C14_RoundOnceAtReport ==
    (OnInsights /\ \A u \in Roster : AllNumeric(RawDaily(u))) =>
        /\ \A i \in 1..Len(USERS) :
              LET recs == Records(RawDaily(USERS[i]), AnyRecord)
              IN  Len(recs) > 0 =>
                    /\ view.out.comparison[i]["Avg Hours"]
                          = Num(10 * SpecMean(recs, "hours", 1)[2])
                    /\ view.out.comparison[i]["Avg Prod"] = SpecMean(recs, "productivity", 100)
        /\ LET raw == RawDaily(User)
               fired == Range(view.out.tab2.suggestions)
           IN  /\ ("hours_low" \in fired) <=> (FieldSum(raw, "hours") * 10 < 350 * Len(raw))
               /\ ("productivity_low" \in fired)
                     <=> (FieldSum(raw, "productivity") * 10 < 38 * Len(raw))
               /\ ("energy_low" \in fired) <=> (FieldSum(raw, "energy") * 10 < 35 * Len(raw))

-----------------------------------------------------------------------------
(* Claims about the habit log (Spec) *)

\* C15: the habits page keeps at most one habit entry per user per date:
\* whatever habit submissions were made, no two entries of habits/{user} carry
\* the same date.
C15_OneHabitEntryPerDate ==
    \A u \in Roster :
        \A i, j \in 1..Len(RawHabits(u)) :
            i # j => RawHabits(u)[i][2]["date"] # RawHabits(u)[j][2]["date"]

-----------------------------------------------------------------------------
(* Claims about the session (Spec) *)

Gated ==
    /\ LoggedIn(session) => session["user"] \in Roster
    /\ view.page # "Login" <=> LoggedIn(session)

\* C17: session gating: a page function runs only while the session holds a
\* roster user; a login sets the user only when the submitted password is that
\* user's; a failed login leaves the session without a user; Logout clears the
\* session and the next render is the login page; a run whose session holds no
\* user neither writes the store nor reads it through the normalizers.
C17_SessionGating ==
    /\ []Gated
    /\ [][/\ \A u \in Usernames, pw \in Passwords :
               Login(u, pw) =>
                  IF u \in Roster /\ pw = Password(u)
                  THEN session' = [user |-> u, page |-> "Dashboard"]
                  ELSE ~LoggedIn(session') /\ view' = LoginView(TRUE)
          /\ (~LoggedIn(session) /\ LoggedIn(session')) =>
                \E u \in Roster : Login(u, Password(u))
          /\ Logout => (session' = <<>> /\ view' = LoginView(FALSE))
          /\ ~LoggedIn(session) => db' = db
          /\ ~LoggedIn(session') => cache' = cache]_vars

\* after a session that rendered pages and was logged out, a login with a wrong
\* password was refused: no user, the login page with its error
C17_RefusedAfterLogout ==
    /\ ~LoggedIn(session)
    /\ view = LoginView(TRUE)
    /\ DOMAIN cache # {}

====
